---- MODULE Spec2Model ----
(***************************************************************************)
(* Model of the hybrid CV search of cv_picker_agent:                       *)
(*   controllers/cvController.js  searchCVs, buildFilterConditions,        *)
(*                                buildTextSearchQuery, buildSortOptions,  *)
(*                                buildSortStage                           *)
(* One request is followed through searchCVs.  Every await of the handler  *)
(* (generateEmbeddings, the two CV.aggregate calls, CV.find,               *)
(* CV.countDocuments) is one step whose outcome, success or a thrown       *)
(* error, is chosen by the environment.                                    *)
(***************************************************************************)
EXTENDS Integers, Sequences, FiniteSets, TLC

VARIABLES
  body,             \* req.body after destructuring with its defaults
  pc,               \* position of the handler
  filterConditions, \* result of buildFilterConditions(filters)
  results,          \* let results
  total,            \* let total
  searchMethod,     \* let searchMethod
  calls,            \* calls issued to the embedding provider and the store
  threw,            \* the calls that ended with a thrown error
  textSearchQuery,  \* let textSearchQuery
  reqQuery,         \* req.query of a GET /search request
  response,         \* what was sent with res.json / res.status().json
  sent              \* number of responses sent for the request

vars == <<body, pc, filterConditions, results, total, searchMethod,
          calls, threw, textSearchQuery, reqQuery, response, sent>>

----------------------------------------------------------------------------
(* Bounds *)

NumRecords == 7
MaxLimit == 2
MaxPage == 3

----------------------------------------------------------------------------
(* JavaScript values that a filter may carry.  NoNum stands for undefined  *)
(* in a numeric slot.                                                      *)

NoNum == -1

\* NaN in a numeric slot
NaN == -2

Undef == [t |-> "undef", s |-> "", n |-> 0, a |-> {}, min |-> NoNum, max |-> NoNum]

Str(x) == [t |-> "str", s |-> x, n |-> 0, a |-> {}, min |-> NoNum, max |-> NoNum]

Num(x) == [t |-> "num", s |-> "", n |-> x, a |-> {}, min |-> NoNum, max |-> NoNum]

Arr(x) == [t |-> "arr", s |-> "", n |-> 0, a |-> x, min |-> NoNum, max |-> NoNum]

\* an object with two optional numeric members (experience {min,max},
\* dateRange {from,to}) or the custom map (a: set of <<key, value>>)
Obj(lo, hi) == [t |-> "obj", s |-> "", n |-> 0, a |-> {}, min |-> lo, max |-> hi]

Map(kv) == [t |-> "map", s |-> "", n |-> 0, a |-> kv, min |-> NoNum, max |-> NoNum]

\* JavaScript truthiness: undefined, "" and 0 are falsy, objects and arrays
\* (also empty ones) are truthy
Truthy(v) ==
  CASE v.t = "undef" -> FALSE
    [] v.t = "str" -> v.s # ""
    [] v.t = "num" -> v.n # 0 /\ v.n # NaN
    [] OTHER -> TRUE

\* filters.<key>: undefined when the key is missing
Get(filters, k) == IF k \in DOMAIN filters THEN filters[k] ELSE Undef

\* conditions[k] = c
Put(conditions, k, c) ==
  [x \in (DOMAIN conditions) \cup {k} |-> IF x = k THEN c ELSE conditions[x]]

NoConditions == [x \in {} |-> 0]

----------------------------------------------------------------------------
(* Conditions of the compiled filter *)

Cond(op, a, s, n, gte, lte) ==
  [op |-> op, a |-> a, s |-> s, n |-> n, gte |-> gte, lte |-> lte]

CIn(a) == Cond("in", a, "", 0, NoNum, NoNum)

CAll(a) == Cond("all", a, "", 0, NoNum, NoNum)

CEqStr(s) == Cond("eqstr", {}, s, 0, NoNum, NoNum)

CEqNum(n) == Cond("eqnum", {}, "", n, NoNum, NoNum)

\* { $gte: lo, $lte: hi }, each member optional; both missing is {}
CRange(lo, hi) == Cond("range", {}, "", 0, lo, hi)

\* list-valued sub-filters (skills, jobTitles, education)
ListCond(conditions, field, v, logic) ==
  IF ~Truthy(v) THEN conditions
  ELSE IF v.t = "arr"
    THEN Put(conditions, field, IF logic = "AND" THEN CAll(v.a) ELSE CIn(v.a))
    ELSE IF v.t = "str" THEN Put(conditions, field, CEqStr(v.s))
    ELSE conditions

\* v.min, v.max are undefined (NoNum) on a number; a number replaces the
\* range object built first
ExperienceCond(conditions, v) ==
  IF ~Truthy(v) THEN conditions
  ELSE LET range == Put(conditions, "metadata.experience", CRange(v.min, v.max))
       IN IF v.t = "num"
            THEN Put(range, "metadata.experience", CEqNum(v.n))
            ELSE range

\* a sub-filter that is not given still sets conditions.uploadDate = {}
DateRangeCondUnguarded(conditions, v) ==
  Put(conditions, "uploadDate", CRange(v.min, v.max))

DateRangeCond(conditions, v) ==
  IF ~Truthy(v) THEN conditions
  ELSE Put(conditions, "uploadDate", CRange(v.min, v.max))

\* for (const [key, value] of Object.entries(filters.custom)), in key order
RECURSIVE CustomCond(_, _)
CustomCond(conditions, kv) ==
  IF kv = {} THEN conditions
  ELSE LET e == CHOOSE x \in kv : TRUE
       IN CustomCond(Put(conditions, "metadata." \o e[1], CEqStr(e[2])), kv \ {e})

buildFilterConditions(filters) ==
  LET c1 == ListCond(NoConditions, "metadata.skills", Get(filters, "skills"),
                     IF Get(filters, "skillsLogic") = Str("AND") THEN "AND" ELSE "OR")
      c2 == ExperienceCond(c1, Get(filters, "experience"))
      c3 == ListCond(c2, "metadata.jobTitles", Get(filters, "jobTitles"), "OR")
      c4 == ListCond(c3, "metadata.education", Get(filters, "education"), "OR")
      c5 == DateRangeCond(c4, Get(filters, "dateRange"))
      c6 == IF Truthy(Get(filters, "custom"))
              THEN CustomCond(c5, Get(filters, "custom").a) ELSE c5
  IN c6

----------------------------------------------------------------------------
(* The collection.  A record: metadata.skills, metadata.experience,        *)
(* metadata.jobTitles, metadata.education, uploadDate, content (a sequence *)
(* of characters), whether embeddings were stored, metadata.location.      *)

Rec(i) ==
  [id |-> i,
   skills |-> {s \in {"c", "r"} : (s = "c" /\ i % 2 = 1) \/ (s = "r" /\ i % 3 # 0)},
   exp |-> i % 4,
   jobTitles |-> IF i % 2 = 0 THEN {"d"} ELSE {"q"},
   education |-> IF i % 3 = 1 THEN {"m"} ELSE {"b"},
   date |-> ((i * 3) % 7) + 1,
   content |-> IF i % 3 = 0 THEN <<"x", "c">> ELSE IF i % 2 = 0 THEN <<"y">>
               ELSE IF i % 5 = 0 THEN <<"x", "*">> ELSE <<"x">>,
   hasEmb |-> i % 7 # 2,
   location |-> IF i % 2 = 0 THEN "pk" ELSE "uk"]

CVs == [i \in 1..NumRecords |-> Rec(i)]

\* the store's evaluation of one condition on one record
MatchCond(r, k, c) ==
  IF k \in {"metadata.skills", "metadata.jobTitles", "metadata.education"}
    THEN LET f == IF k = "metadata.skills" THEN r.skills
                  ELSE IF k = "metadata.jobTitles" THEN r.jobTitles
                  ELSE r.education
         IN CASE c.op = "in" -> f \cap c.a # {}
              [] c.op = "all" -> c.a # {} /\ c.a \subseteq f
              [] c.op = "eqstr" -> c.s \in f
              [] OTHER -> FALSE
  ELSE IF k \in {"metadata.experience", "uploadDate"}
    THEN LET x == IF k = "uploadDate" THEN r.date ELSE r.exp
         IN CASE c.op = "eqnum" -> x = c.n
              [] c.op = "range" ->
                   \* { field: {} } is equality with the empty document;
                   \* no number compares with NaN
                   /\ ~(c.gte = NoNum /\ c.lte = NoNum)
                   /\ (c.gte # NoNum => c.gte # NaN /\ x >= c.gte)
                   /\ (c.lte # NoNum => c.lte # NaN /\ x <= c.lte)
              [] OTHER -> FALSE
  ELSE IF k = "metadata.location"
    THEN c.op = "eqstr" /\ c.s = r.location
  ELSE FALSE

\* a record satisfies the compiled filter: every condition holds
Matches(r, conditions) ==
  \A k \in DOMAIN conditions : MatchCond(r, k, conditions[k])

----------------------------------------------------------------------------
(* Text query builder *)

TextIndexMaxLen == 50

RegexMeta == {".", "*", "+", "?", "^", "$", "{", "}", "(", ")", "|", "[", "]", "\\"}

Chars(q) == {q[i] : i \in 1..Len(q)}

\* query.replace(/[.*+?^${}()|[\]\\]/g, '\\$&')
RECURSIVE Escape(_)
Escape(q) ==
  IF q = <<>> THEN <<>>
  ELSE (IF Head(q) \in RegexMeta THEN <<"\\", Head(q)>> ELSE <<Head(q)>>)
       \o Escape(Tail(q))

\* an asterisk does not send the query to the regex
buildTextSearchQueryNoStar(query) ==
  IF Len(query) < TextIndexMaxLen /\ "\"" \notin Chars(query)
    THEN [kind |-> "text", q |-> query]
    ELSE [kind |-> "regex", q |-> Escape(query)]

buildTextSearchQuery(query) ==
  IF Len(query) < TextIndexMaxLen /\ "\"" \notin Chars(query) /\ "*" \notin Chars(query)
    THEN [kind |-> "text", q |-> query]
    ELSE [kind |-> "regex", q |-> Escape(query)]

\* let textSearchQuery = {}
MatchAll == [kind |-> "all", q |-> <<>>]

\* the literal a pattern of escaped characters stands for
RECURSIVE Literal(_)
Literal(p) ==
  IF p = <<>> THEN <<>>
  ELSE IF Head(p) = "\\" /\ Len(p) >= 2
    THEN <<p[2]>> \o Literal(Tail(Tail(p)))
    ELSE <<Head(p)>> \o Literal(Tail(p))

Contains(text, lit) ==
  \E i \in 0..(Len(text) - Len(lit)) :
     \A j \in 1..Len(lit) : text[i + j] = lit[j]

\* the 'i' flag of the RegExp: letters are compared in lower case
LowerSeq(t) == [i \in 1..Len(t) |-> IF t[i] = "X" THEN "x" ELSE t[i]]

\* the terms of a record in the text index (content, skills, job titles)
Terms(r) == Chars(r.content) \cup r.skills \cup r.jobTitles

\* the store's evaluation of the text predicate: $text matches a record
\* holding one of the terms, $regex one holding the literal
TextMatches(r, tq) ==
  CASE tq.kind = "all" -> TRUE
    [] tq.kind = "text" -> Chars(tq.q) \cap Terms(r) # {}
    [] OTHER ->
         LET lit == Literal(tq.q)
         IN \/ Contains(LowerSeq(r.content), LowerSeq(lit))
            \/ \E w \in r.skills \cup r.jobTitles \cup r.education :
                  Contains(LowerSeq(<<w>>), LowerSeq(lit))

\* number of query terms a record holds ($meta textScore)
Score(r, tq) ==
  IF tq.kind = "text" THEN Cardinality(Chars(tq.q) \cap Terms(r)) ELSE 0

----------------------------------------------------------------------------
(* Sort resolvers *)

\* sortOrder.toLowerCase()
Lower(s) == IF s = "ASC" THEN "asc" ELSE IF s = "DESC" THEN "desc" ELSE s

buildSortOptions(sortBy, sortOrder) ==
  LET direction == IF Lower(sortOrder) = "asc" THEN 1 ELSE -1
  IN CASE sortBy = "uploadDate" -> [field |-> "uploadDate", dir |-> direction]
       [] sortBy = "experience" -> [field |-> "metadata.experience", dir |-> direction]
       [] sortBy = "relevance" -> [field |-> "score", dir |-> -1]
       [] OTHER -> [field |-> "uploadDate", dir |-> -1]

\* the default follows the requested direction
buildSortStageDefaultDirection(sortBy, sortOrder) ==
  LET direction == IF Lower(sortOrder) = "asc" THEN 1 ELSE -1
  IN CASE sortBy = "experience" -> [field |-> "metadata.experience", dir |-> direction]
       [] OTHER -> [field |-> "uploadDate", dir |-> direction]

buildSortStage(sortBy, sortOrder) ==
  LET direction == IF Lower(sortOrder) = "asc" THEN 1 ELSE -1
  IN CASE sortBy = "uploadDate" -> [field |-> "uploadDate", dir |-> direction]
       [] sortBy = "experience" -> [field |-> "metadata.experience", dir |-> direction]
       [] OTHER -> [field |-> "uploadDate", dir |-> -1]

\* the key a record is ordered by
SortKey(i, field, tq) ==
  CASE field = "uploadDate" -> CVs[i].date
    [] field = "metadata.experience" -> CVs[i].exp
    [] OTHER -> Score(CVs[i], tq)

\* stable sort of a sequence of record ids: an element goes after those of a
\* smaller key (dir = -1: larger) and after the earlier ones of the same key
SortIds(s, sort, tq) ==
  LET key(k) == sort.dir * SortKey(s[k], sort.field, tq)
      before(k) == {j \in 1..Len(s) : key(j) < key(k) \/ (key(j) = key(k) /\ j < k)}
  IN [p \in 1..Len(s) |-> s[CHOOSE k \in 1..Len(s) : Cardinality(before(k)) = p - 1]]

----------------------------------------------------------------------------
(* The store: aggregation pipelines and find *)

Min(a, b) == IF a < b THEN a ELSE b

Max(a, b) == IF a > b THEN a ELSE b

Take(s, n) == SubSeq(s, 1, Min(n, Len(s)))

Drop(s, n) == SubSeq(s, Min(n, Len(s)) + 1, Len(s))

AllIds == [i \in 1..NumRecords |-> i]

Reverse(s) == [i \in 1..Len(s) |-> s[Len(s) + 1 - i]]

\* records that hold embeddings, nearest to the query first
Nearest(query) ==
  LET emb == SelectSeq(AllIds, LAMBDA i : CVs[i].hasEmb)
  IN IF query # <<>> /\ Head(query) = "x" THEN emb ELSE Reverse(emb)

\* a document as the store returns it: content and embeddings are left out
\* when the projection is applied
Doc(i, projected) ==
  [id |-> i,
   content |-> IF projected THEN "absent" ELSE "value",
   embeddings |-> IF projected THEN "absent" ELSE "value"]

Stage(op, n, m, cond, sort, q) ==
  [op |-> op, n |-> n, m |-> m, cond |-> cond, sort |-> sort, q |-> q]

NoSort == [field |-> "", dir |-> 0]

VectorSearchStage(q, numCandidates, limit) ==
  Stage("$vectorSearch", limit, numCandidates, NoConditions, NoSort, q)

MatchStage(cond) == Stage("$match", 0, 0, cond, NoSort, <<>>)

SortStage(sort) == Stage("$sort", 0, 0, NoConditions, sort, <<>>)

SkipStage(n) == Stage("$skip", n, 0, NoConditions, NoSort, <<>>)

LimitStage(n) == Stage("$limit", n, 0, NoConditions, NoSort, <<>>)

ProjectStage == Stage("$project", 0, 0, NoConditions, NoSort, <<>>)

CountStage == Stage("$count", 0, 0, NoConditions, NoSort, <<>>)

\* one stage applied to the documents that reach it (record ids until the
\* projection or the count)
RunStage(st, docs, projected) ==
  CASE st.op = "$vectorSearch" -> Take(Take(Nearest(st.q), st.m), st.n)
    [] st.op = "$match" -> SelectSeq(docs, LAMBDA i : Matches(CVs[i], st.cond))
    [] st.op = "$sort" -> SortIds(docs, st.sort, MatchAll)
    [] st.op = "$skip" -> Drop(docs, st.n)
    [] st.op = "$limit" -> Take(docs, st.n)
    [] st.op = "$project" -> [k \in 1..Len(docs) |-> Doc(docs[k], projected)]
    [] OTHER -> IF Len(docs) > 0 THEN <<[total |-> Len(docs)]>> ELSE <<>>

\* CV.aggregate(pipeline)
RECURSIVE Aggregate(_, _, _)
Aggregate(pipeline, docs, projected) ==
  IF pipeline = <<>> THEN docs
  ELSE Aggregate(Tail(pipeline), RunStage(Head(pipeline), docs, projected), projected)

\* the records matching a find query { $and: [textSearchQuery, filterConditions] }
\* or textSearchQuery alone, in natural order
FindIds(fq) ==
  SelectSeq(AllIds, LAMBDA i : TextMatches(CVs[i], fq.text) /\ Matches(CVs[i], fq.filter))

\* CV.find(q).sort(s).select('-content -embeddings').skip(k).limit(n).lean()
Find(fq, sort, skip, limit, projected) ==
  LET page == Take(Drop(SortIds(FindIds(fq), sort, fq.text), skip), limit)
  IN [k \in 1..Len(page) |-> Doc(page[k], projected)]

\* CV.countDocuments(q)
CountDocuments(fq) == Len(FindIds(fq))

----------------------------------------------------------------------------
(* Requests *)

LongQuery == [i \in 1..TextIndexMaxLen |-> "x"]

Queries == {<<>>, <<"x">>, <<"c">>, <<"x", "*">>, LongQuery}

SortBys == {"relevance", "uploadDate", "experience", "name"}

SortOrders == {"asc", "desc"}

SearchTypes == {"auto", "vector", "text"}

NoFilters == [x \in {} |-> Undef]

\* the filter objects of the requests followed through searchCVs
Filters ==
  { NoFilters,
    [skills |-> Arr({"c"})],
    [skills |-> Arr({"c", "r"}), skillsLogic |-> Str("AND")],
    [skills |-> Str("")],
    [experience |-> Num(2)],
    [experience |-> Obj(1, 2), jobTitles |-> Arr({"d"})],
    [education |-> Str("m"), dateRange |-> Obj(3, NoNum)],
    [custom |-> Map({})],
    [custom |-> Map({<<"location", "pk">>})],
    [experience |-> Num(9)] }

Bodies ==
  [query : Queries, limit : 1..MaxLimit, page : 1..MaxPage, filters : Filters,
   sortBy : SortBys, sortOrder : SortOrders, searchType : SearchTypes]

NoBody ==
  [query |-> <<>>, limit |-> 1, page |-> 1, filters |-> NoFilters,
   sortBy |-> "relevance", sortOrder |-> "desc", searchType |-> "auto"]

----------------------------------------------------------------------------
(* searchCVs *)

\* req.query of a request that carries no parameter
NoQueryParams == [x \in {} |-> <<>>]

NoResponse ==
  [status |-> 0, success |-> FALSE, count |-> 0, total |-> 0, page |-> 0,
   totalPages |-> 0, searchMethod |-> "", results |-> <<>>, error |-> "",
   details |-> ""]

\* truthiness of query
HasQuery(b) == b.query # <<>>

\* the vector path is tried for every searchType
useVectorSearchAlways(b) == TRUE

useVectorSearch(b) == b.searchType = "auto" \/ b.searchType = "vector"

useTextSearch(b) == b.searchType = "auto" \/ b.searchType = "text"

Skip(b) == (b.page - 1) * b.limit

\* Math.ceil(total / limit)
Ceil(a, b) == (a + b - 1) \div b

Pipeline(b, fc) ==
  <<VectorSearchStage(b.query, Max(100, b.limit * 3), b.limit * 5)>>
  \o (IF DOMAIN fc # {} THEN <<MatchStage(fc)>> ELSE <<>>)
  \o (IF b.sortBy # "relevance"
        THEN <<SortStage(buildSortStage(b.sortBy, b.sortOrder))>> ELSE <<>>)
  \o <<SkipStage(Skip(b)), LimitStage(b.limit), ProjectStage>>

Pop(s) == SubSeq(s, 1, Len(s) - 1)

\* only the projection is removed: the count runs after $skip and $limit
CountPipelinePaged(pipeline) == Pop(pipeline) \o <<CountStage>>

CountPipeline(pipeline) == Pop(Pop(Pop(pipeline))) \o <<CountStage>>

FinalQuery(b, fc) == [text |-> textSearchQuery, filter |-> fc]

\* the records are sent as the store returned them
SanitizeNothing(doc) == doc

\* results.map(result => ({...result, content: undefined, embeddings: undefined}))
Sanitize(doc) == [doc EXCEPT !.content = "undefined", !.embeddings = "undefined"]

\* JSON serialisation of a record: a member that is undefined is left out
Serialize(doc) ==
  [doc EXCEPT !.content = IF @ = "undefined" THEN "absent" ELSE @,
              !.embeddings = IF @ = "undefined" THEN "absent" ELSE @]

\* res.json({ success: true, ... })
Respond(b, res, tot, method) ==
  /\ response' = [NoResponse EXCEPT
                    !.status = 200, !.success = TRUE, !.count = Len(res),
                    !.total = tot, !.page = b.page,
                    !.totalPages = Ceil(tot, b.limit),
                    !.searchMethod = method,
                    !.results = [k \in 1..Len(res) |-> Serialize(Sanitize(res[k]))]]
  /\ sent' = sent + 1
  /\ pc' = "done"
  /\ results' = res /\ total' = tot /\ searchMethod' = method
  /\ UNCHANGED <<calls, textSearchQuery>>

\* the outer catch logs the error and sends nothing
FailUnanswered(details) ==
  /\ pc' = "done"
  /\ UNCHANGED <<response, sent>>
  /\ UNCHANGED <<results, total, searchMethod, calls, textSearchQuery>>

\* the outer catch: res.status(500).json({ error, details, success: false })
Fail(details) ==
  /\ response' = [NoResponse EXCEPT
                    !.status = 500, !.error = "Failed to search CVs",
                    !.details = details]
  /\ sent' = sent + 1
  /\ pc' = "done"
  /\ UNCHANGED <<results, total, searchMethod, calls, textSearchQuery>>

\* if ((useTextSearch && results.length === 0) || searchType === 'text')
\* up to the await of CV.find, else the response
TryText(b, res, tot, method) ==
  IF (useTextSearch(b) /\ Len(res) = 0) \/ b.searchType = "text"
    THEN /\ textSearchQuery' = IF HasQuery(b) THEN buildTextSearchQuery(b.query)
                                ELSE MatchAll
         /\ calls' = Append(calls, "find")
         /\ pc' = "find"
         /\ results' = res /\ total' = tot /\ searchMethod' = method
         /\ UNCHANGED <<response, sent>>
    ELSE Respond(b, res, tot, method)

\* the catch rethrows whatever searchType is
VectorCatchRethrows(b) == Fail("Vector search failed")

\* the catch never rethrows
VectorCatchSwallows(b) == TryText(b, results, total, searchMethod)

\* the catch of the vector block
VectorCatch(b) ==
  IF b.searchType = "vector"
    THEN Fail("Vector search failed")
    ELSE TryText(b, results, total, searchMethod)

\* the validation is left out
InvalidNever(b) == FALSE

\* !query && Object.keys(filters).length === 0
Invalid(b) == ~HasQuery(b) /\ DOMAIN b.filters = {}

\* searchCVs from its entry to the first await or to the 400 response
Handle(b) ==
  /\ pc = "idle"
  /\ body' = b
  /\ IF Invalid(b)
       THEN /\ response' = [NoResponse EXCEPT
                              !.status = 400,
                              !.error = "Search requires either a query or filters"]
            /\ sent' = sent + 1
            /\ pc' = "done"
            /\ UNCHANGED <<filterConditions, results, total, searchMethod, calls,
                           textSearchQuery>>
       ELSE /\ filterConditions' = buildFilterConditions(b.filters)
            /\ IF useVectorSearch(b) /\ HasQuery(b)
                 THEN /\ calls' = Append(calls, "embed")
                      /\ pc' = "embed"
                      /\ UNCHANGED <<results, total, searchMethod, response, sent,
                                     textSearchQuery>>
                 ELSE TryText(b, <<>>, 0, "")
  /\ UNCHANGED threw

\* router.post('/search', cvController.searchCVs)
Plan(b) ==
  /\ Handle(b)
  /\ UNCHANGED reqQuery

\* generateEmbeddings(query) returns; CV.aggregate(pipeline) is issued
EmbedOk ==
  /\ pc = "embed"
  /\ calls' = Append(calls, "aggregate")
  /\ pc' = "aggregate"
  /\ UNCHANGED <<body, filterConditions, results, total, searchMethod, response, sent>>
  /\ UNCHANGED threw
  /\ UNCHANGED <<textSearchQuery, reqQuery>>

EmbedFail ==
  /\ pc = "embed"
  /\ VectorCatch(body)
  /\ UNCHANGED <<body, filterConditions>>
  /\ threw' = threw \cup {"embed"}
  /\ UNCHANGED reqQuery

\* CV.aggregate(pipeline) returns; the count pipeline is issued
AggregateOk(projected) ==
  /\ pc = "aggregate"
  /\ results' = Aggregate(Pipeline(body, filterConditions), <<>>, projected)
  /\ calls' = Append(calls, "aggregateCount")
  /\ pc' = "vcount"
  /\ UNCHANGED <<body, filterConditions, total, searchMethod, response, sent>>
  /\ UNCHANGED threw
  /\ UNCHANGED <<textSearchQuery, reqQuery>>

AggregateFail ==
  /\ pc = "aggregate"
  /\ VectorCatch(body)
  /\ UNCHANGED <<body, filterConditions>>
  /\ threw' = threw \cup {"aggregate"}
  /\ UNCHANGED reqQuery

\* CV.aggregate(countPipeline) returns
VectorCountOk ==
  /\ pc = "vcount"
  /\ LET totalCountResult ==
           Aggregate(CountPipeline(Pipeline(body, filterConditions)), <<>>, TRUE)
         tot == IF Len(totalCountResult) > 0
                  THEN totalCountResult[1].total ELSE Len(results)
     IN TryText(body, results, tot, "vector")
  /\ UNCHANGED <<body, filterConditions>>
  /\ UNCHANGED threw
  /\ UNCHANGED reqQuery

VectorCountFail ==
  /\ pc = "vcount"
  /\ VectorCatch(body)
  /\ UNCHANGED <<body, filterConditions>>
  /\ threw' = threw \cup {"aggregateCount"}
  /\ UNCHANGED reqQuery

\* CV.find(...) returns; CV.countDocuments is issued
FindOk(projected) ==
  /\ pc = "find"
  /\ results' = Find(FinalQuery(body, filterConditions),
                     buildSortOptions(body.sortBy, body.sortOrder),
                     Skip(body), body.limit, projected)
  /\ calls' = Append(calls, "countDocuments")
  /\ pc' = "tcount"
  /\ UNCHANGED <<body, filterConditions, total, searchMethod, response, sent>>
  /\ UNCHANGED threw
  /\ UNCHANGED <<textSearchQuery, reqQuery>>

FindFail ==
  /\ pc = "find"
  /\ Fail("find failed")
  /\ UNCHANGED <<body, filterConditions>>
  /\ threw' = threw \cup {"find"}
  /\ UNCHANGED reqQuery

\* a failed count is swallowed and the page is sent
TextCountFailSwallowed ==
  /\ pc = "tcount"
  /\ Respond(body, results, Len(results), "text")
  /\ UNCHANGED <<body, filterConditions>>
  /\ threw' = threw \cup {"countDocuments"}
  /\ UNCHANGED reqQuery

\* CV.countDocuments(finalQuery) returns
TextCountOk ==
  /\ pc = "tcount"
  /\ Respond(body, results, CountDocuments(FinalQuery(body, filterConditions)), "text")
  /\ UNCHANGED <<body, filterConditions>>
  /\ UNCHANGED threw
  /\ UNCHANGED reqQuery

TextCountFail ==
  /\ pc = "tcount"
  /\ Fail("countDocuments failed")
  /\ UNCHANGED <<body, filterConditions>>
  /\ threw' = threw \cup {"countDocuments"}
  /\ UNCHANGED reqQuery

Init ==
  /\ body = NoBody
  /\ pc = "idle"
  /\ filterConditions = NoConditions
  /\ results = <<>>
  /\ total = 0
  /\ searchMethod = ""
  /\ calls = <<>>
  /\ threw = {}
  /\ textSearchQuery = MatchAll
  /\ reqQuery = NoQueryParams
  /\ response = NoResponse
  /\ sent = 0

Next ==
  \/ \E b \in Bodies : Plan(b)
  \/ EmbedOk
  \/ EmbedFail
  \/ \E projected \in BOOLEAN : AggregateOk(projected)
  \/ AggregateFail
  \/ VectorCountOk
  \/ VectorCountFail
  \/ \E projected \in BOOLEAN : FindOk(projected)
  \/ FindFail
  \/ TextCountOk
  \/ TextCountFail

Spec == Init /\ [][Next]_vars

----------------------------------------------------------------------------
(* Properties of searchCVs *)

VectorCalls == {"embed", "aggregate", "aggregateCount"}

TextCalls == {"find", "countDocuments"}

CalledSet == {calls[i] : i \in 1..Len(calls)}

Succeeded == response.status = 200 /\ response.success

\* C1: in auto mode with a query, when the embedding call or the vector
\* retrieval throws, the failure is swallowed: no response is sent until the
\* text executor has run, and if find and countDocuments succeed the request
\* ends with a success response whose searchMethod is 'text'.
C1_AutoFallsBackToText ==
  (/\ body.searchType = "auto"
   /\ HasQuery(body)
   /\ threw \cap {"embed", "aggregate"} # {})
  => /\ "find" \in CalledSet
     /\ (pc # "done" => sent = 0)
     /\ (pc = "done" /\ threw \cap TextCalls = {}
           => Succeeded /\ response.searchMethod = "text" /\ sent = 1)

C1_Witness ==
  /\ pc = "done"
  /\ body.searchType = "auto"
  /\ "aggregate" \in threw
  /\ response.searchMethod = "text"
  /\ Len(response.results) > 0

\* C2: with searchType 'vector', when the embedding call or the vector
\* retrieval throws, the request ends with the 500 response carrying
\* 'Vector search failed' and find is never called.
C2_VectorFailureIsFatal ==
  (/\ body.searchType = "vector"
   /\ threw \cap {"embed", "aggregate"} # {})
  => /\ pc = "done"
     /\ response.status = 500
     /\ ~response.success
     /\ response.details = "Vector search failed"
     /\ CalledSet \cap TextCalls = {}

C2_Witness ==
  /\ pc = "done"
  /\ body.searchType = "vector"
  /\ "embed" \in threw
  /\ response.status = 500

\* C3: whenever the embedding call, the vector retrieval and the count all
\* return without error, whatever the number of records, the response has
\* searchMethod 'vector' and the text executor is not called.
C3_VectorSuccessSkipsText ==
  (/\ VectorCalls \subseteq CalledSet
   /\ threw \cap VectorCalls = {}
   /\ pc # "vcount")
  => /\ CalledSet \cap TextCalls = {}
     /\ pc = "done"
     /\ response.searchMethod = "vector"

\* C4: every success response carries searchMethod 'vector' or 'text', and
\* it names the executor whose call produced the results; when the vector
\* path was not taken the text executor has run.
C4_SearchMethodNamesExecutor ==
  Succeeded =>
    /\ response.searchMethod \in {"vector", "text"}
    /\ (response.searchMethod = "text" => "countDocuments" \in CalledSet)
    /\ (response.searchMethod = "vector" => "aggregateCount" \in CalledSet)
    /\ ("embed" \notin CalledSet => response.searchMethod = "text")

\* a filter value that carries no criteria: undefined, null, "", an empty
\* list, an object without bounds, an empty custom map
EmptyFilter(v) ==
  \/ v.t = "undef"
  \/ v.t = "str" /\ v.s = ""
  \/ v.t \in {"arr", "map"} /\ v.a = {}
  \/ v.t = "obj" /\ v.min = NoNum /\ v.max = NoNum

FullSet(b, method) ==
  LET fc == buildFilterConditions(b.filters)
  IN IF method = "text"
       THEN LET tq == IF HasQuery(b) THEN buildTextSearchQuery(b.query) ELSE MatchAll
                hits == SelectSeq(AllIds, LAMBDA i : TextMatches(CVs[i], tq) /\ Matches(CVs[i], fc))
            IN SortIds(hits, buildSortOptions(b.sortBy, b.sortOrder), tq)
       ELSE LET pool == Take(Nearest(b.query), 5 * b.limit)
                hits == SelectSeq(pool, LAMBDA i : Matches(CVs[i], fc))
            IN IF b.sortBy = "relevance" THEN hits
               ELSE SortIds(hits, buildSortStage(b.sortBy, b.sortOrder), MatchAll)

C7_NoHeavyFields ==
  Succeeded =>
    \A k \in 1..Len(response.results) :
       /\ response.results[k].content = "absent"
       /\ response.results[k].embeddings = "absent"

C7_Witness ==
  /\ Succeeded
  /\ Len(results) > 0
  /\ results[1].content = "value"
  /\ response.results[1].content = "absent"
  /\ response.searchMethod = "vector"

\* C8: the embedding call is issued iff searchType is 'auto' or 'vector' and
\* a query is present; the vector retrieval is issued only after the
\* embedding call, and only when that call did not throw.
C8_VectorEligibility ==
  /\ (pc # "idle" =>
        ("embed" \in CalledSet
           <=> (body.searchType \in {"auto", "vector"} /\ HasQuery(body))))
  /\ (CalledSet \cap {"aggregate", "aggregateCount"} # {} =>
        /\ "embed" \in CalledSet
        /\ "embed" \notin threw
        /\ calls[1] = "embed"
        /\ calls[2] = "aggregate")
  /\ (pc = "idle" => calls = <<>>)

C8_Witness ==
  /\ pc = "done"
  /\ body.searchType = "text"
  /\ HasQuery(body)
  /\ Succeeded
  /\ calls = <<"find", "countDocuments">>

\* C9: when find or countDocuments throws, the request ends with the 500
\* response, whatever searchType is and also after a fallback; the failed
\* call is the last call of the request and one response is sent.
C9_TextFailureIsFatal ==
  (threw \cap TextCalls # {}) =>
    /\ pc = "done"
    /\ response.status = 500
    /\ ~response.success
    /\ sent = 1
    /\ calls[Len(calls)] \in threw \cap TextCalls

C9_Witness ==
  /\ pc = "done"
  /\ threw = {"embed", "countDocuments"}
  /\ response.status = 500

----------------------------------------------------------------------------
(* buildFilterConditions on its own: the filter objects are drawn from     *)
(* every combination of the values below, a key being left out of the      *)
(* object where the value is Missing.                                      *)

Missing == [t |-> "missing", s |-> "", n |-> 0, a |-> {}, min |-> NoNum, max |-> NoNum]

MaxExp == 2

FilterChoices ==
  [skills : {Missing, Undef, Str(""), Str("c"), Arr({}), Arr({"c", "r"})},
   skillsLogic : {Missing, Str("AND")},
   experience : {Missing, Obj(NoNum, NoNum), Obj(1, MaxExp), Obj(1, NoNum),
                 Obj(NoNum, MaxExp)} \cup {Num(n) : n \in {0, MaxExp}},
   jobTitles : {Missing, Arr({"d"})},
   education : {Missing, Str("m")},
   dateRange : {Missing, Obj(NoNum, NoNum), Obj(3, NoNum)},
   custom : {Missing, Map({}), Map({<<"location", "pk">>}), Map({<<"skills", "c">>})}]

\* the object holding the keys that were given
FilterObject(c) ==
  [k \in {x \in DOMAIN c : c[x] # Missing} |-> c[k]]

FilterBodies ==
  {[NoBody EXCEPT !.query = <<"x">>, !.searchType = "text", !.filters = FilterObject(c)] :
     c \in FilterChoices}

NextFilter == \E b \in FilterBodies : Plan(b)

SpecFilter == Init /\ [][NextFilter]_vars

SubFilters == {"skills", "experience", "jobTitles", "education", "dateRange", "custom"}

\* the field a sub-filter constrains
FieldOf(k) == IF k = "dateRange" THEN "uploadDate" ELSE "metadata." \o k

\* the fields the custom map constrains
CustomFields(filters) ==
  IF Truthy(Get(filters, "custom"))
    THEN {"metadata." \o e[1] : e \in Get(filters, "custom").a} ELSE {}

AllRecords == {CVs[i] : i \in 1..NumRecords}

ExpValues == 0..(MaxExp + 1)

\* the compiled filter lets a record of experience x through, as far as
\* its condition on metadata.experience goes
AcceptsExperience(conditions, x) ==
  "metadata.experience" \in DOMAIN conditions =>
     MatchCond([Rec(1) EXCEPT !.exp = x], "metadata.experience",
               conditions["metadata.experience"])

\* C11: a scalar experience n, any non-negative integer, compiles to
\* experience = n; a range compiles to experience >= min when min is given
\* and experience <= max when max is given, each bound optional.
C11_ExperienceFilter ==
  (/\ pc # "idle"
   /\ ~Invalid(body)
   /\ "metadata.experience" \notin CustomFields(body.filters)) =>
    LET v == Get(body.filters, "experience")
    IN /\ (v.t = "num" =>
             \A x \in ExpValues : AcceptsExperience(filterConditions, x) <=> (x = v.n))
       /\ (v.t = "obj" =>
             \A x \in ExpValues :
                AcceptsExperience(filterConditions, x)
                  <=> ((v.min # NoNum => x >= v.min) /\ (v.max # NoNum => x <= v.max)))

\* the filter object cut down to some of its keys
Only(filters, keys) == [k \in (DOMAIN filters) \cap keys |-> filters[k]]

\* a record satisfies one sub-filter taken on its own
SatisfiesSubFilter(r, filters, k) ==
  Matches(r, buildFilterConditions(
               Only(filters, IF k = "skills" THEN {"skills", "skillsLogic"} ELSE {k})))

\* a record satisfies the equality constraint of one custom key
SatisfiesCustomKey(r, e) ==
  Matches(r, buildFilterConditions([custom |-> Map({e})]))

\* C12: the compiled filter is the conjunction of the present sub-filters
\* and of one equality constraint per custom key: a record matches it iff it
\* satisfies every one of them.
C12_ConjunctionOfSubFilters ==
  (pc # "idle" /\ ~Invalid(body)) =>
    \A r \in AllRecords :
       Matches(r, filterConditions)
         <=> /\ \A k \in SubFilters \ {"custom"} : SatisfiesSubFilter(r, body.filters, k)
             /\ \A e \in Get(body.filters, "custom").a : SatisfiesCustomKey(r, e)

----------------------------------------------------------------------------
(* buildTextSearchQuery on its own: text searches with queries around the  *)
(* length limit of the text index, with and without the characters that    *)
(* matter.                                                                 *)

MaxShortLen == 2

QueryLens ==
  (1..MaxShortLen) \cup {TextIndexMaxLen - 1, TextIndexMaxLen, TextIndexMaxLen + 1}

QueryChars == {"x", "X", "\"", "*", ".", "\\"}

\* a query of n characters, all "x" but the one at pos
QueryOf(n, c, pos) == [i \in 1..n |-> IF i = pos THEN c ELSE "x"]

TextQueries ==
  {QueryOf(n, c, pos) : n \in QueryLens, c \in QueryChars, pos \in {1, 2}}
    \cup {<<"X", "*">>}

TextBodies ==
  {[NoBody EXCEPT !.query = q, !.searchType = "text", !.limit = MaxLimit] :
     q \in TextQueries}

NextText ==
  \/ \E b \in TextBodies : Plan(b)
  \/ \E projected \in BOOLEAN : FindOk(projected)
  \/ TextCountOk

SpecText == Init /\ [][NextText]_vars

\* p is q with a backslash before each regular-expression metacharacter
RECURSIVE IsEscaped(_, _)
IsEscaped(p, q) ==
  IF q = <<>> THEN p = <<>>
  ELSE IF Head(q) \in RegexMeta
    THEN /\ Len(p) >= 2
         /\ p[1] = "\\"
         /\ p[2] = Head(q)
         /\ IsEscaped(Tail(Tail(p)), Tail(q))
    ELSE /\ Len(p) >= 1
         /\ p[1] = Head(q)
         /\ IsEscaped(Tail(p), Tail(q))

\* the query occurs literally, whatever the case, in the content, a skill,
\* a job title or the education of the record
OccursIn(q, r) ==
  \E t \in {r.content} \cup {<<w>> : w \in r.skills \cup r.jobTitles \cup r.education} :
     \E i \in 0..(Len(t) - Len(q)) :
        \A j \in 1..Len(q) : LowerSeq(t)[i + j] = LowerSeq(q)[j]

\* C13: a query of 50 characters or more, or holding a double quote or an
\* asterisk, is searched with the escaped case-insensitive regex over
\* content, skills, job titles and education; every other query with the
\* text index.
C13_TextQueryRouting ==
  ("find" \in CalledSet /\ HasQuery(body)) =>
    LET q == body.query
    IN IF Len(q) >= 50 \/ \E i \in 1..Len(q) : q[i] \in {"\"", "*"}
         THEN /\ textSearchQuery.kind = "regex"
              /\ IsEscaped(textSearchQuery.q, q)
              /\ (Succeeded /\ filterConditions = NoConditions =>
                    /\ \A k \in 1..Len(response.results) :
                          OccursIn(q, CVs[response.results[k].id])
                    /\ response.total = Cardinality({r \in AllRecords : OccursIn(q, r)}))
         ELSE /\ textSearchQuery.kind = "text"
              /\ textSearchQuery.q = q

\* a short query with an asterisk, found by the regex in another case
C13_Witness ==
  /\ Succeeded
  /\ body.query = <<"X", "*">>
  /\ textSearchQuery.kind = "regex"
  /\ response.total = 1
  /\ response.count = 1

----------------------------------------------------------------------------
(* The sort resolvers on their own: searches of one path each that return  *)
(* every record on one page, for each sortBy and sortOrder.                *)

SortOrderValues == {"asc", "desc", "ASC", "up"}

SortBodies ==
  [query : {<<"x">>, <<"c">>}, limit : {NumRecords}, page : {1}, filters : {NoFilters},
   sortBy : SortBys, sortOrder : SortOrderValues, searchType : {"text", "vector"}]

NextSort ==
  \/ \E b \in SortBodies : Plan(b)
  \/ EmbedOk
  \/ AggregateOk(TRUE)
  \/ VectorCountOk
  \/ FindOk(TRUE)
  \/ TextCountOk

SpecSort == Init /\ [][NextSort]_vars

\* the records of the response follow each other in the order of key,
\* ascending or descending
InOrder(docs, key(_), ascending) ==
  \A k \in 1..(Len(docs) - 1) :
     IF ascending THEN key(docs[k].id) <= key(docs[k + 1].id)
     ELSE key(docs[k].id) >= key(docs[k + 1].id)

UploadDateOf(i) == CVs[i].date

ExperienceOf(i) == CVs[i].exp

\* the rank of a record in the similarity order of the query
RankOf(i) == CHOOSE k \in 1..Len(Nearest(body.query)) : Nearest(body.query)[k] = i

\* the order a response has to be in when sortOrder values in ascending
\* stand for ascending and every other value for descending
SortedAs(ascending) ==
  LET up == body.sortOrder \in ascending
  IN CASE body.sortBy = "uploadDate" -> InOrder(response.results, UploadDateOf, up)
       [] body.sortBy = "experience" -> InOrder(response.results, ExperienceOf, up)
       [] body.sortBy = "relevance" ->
            body.searchType = "vector" => InOrder(response.results, RankOf, TRUE)
       [] OTHER -> InOrder(response.results, UploadDateOf, FALSE)

\* the searches of one path end with a success response
SortResolved ==
  /\ pc = "done"
  /\ body.searchType \in {"text", "vector"}
  /\ Succeeded
  /\ response.searchMethod = body.searchType

HasSortStage(pipeline) == \E k \in 1..Len(pipeline) : pipeline[k].op = "$sort"

\* C14 as stated: sortOrder 'asc' sorts ascending and every other value
\* descending; uploadDate and experience sort by their field in that
\* direction, any other sortBy by uploadDate descending; the vector pipeline
\* has no sort stage when sortBy is 'relevance'.
C14_SortAscOnly ==
  /\ (SortResolved => SortedAs({"asc"}))
  /\ (pc = "aggregate" =>
        (HasSortStage(Pipeline(body, filterConditions)) <=> body.sortBy # "relevance"))

\* C14 amended: a sortOrder that reads 'asc' whatever the case of its
\* letters sorts ascending and every other string descending; the rest as
\* stated, and no request ends in an error on account of its sortBy.
C14_SortAscAnyCase ==
  /\ (SortResolved => SortedAs({"asc", "ASC"}))
  /\ (pc = "aggregate" =>
        (HasSortStage(Pipeline(body, filterConditions)) <=> body.sortBy # "relevance"))
  /\ (pc = "done" /\ threw = {} => response.status # 500)

\* an unrecognized sortBy with an ascending sortOrder on the vector path:
\* the records come newest first
C14_Witness ==
  /\ SortResolved
  /\ body.sortBy = "name"
  /\ body.sortOrder = "ASC"
  /\ body.searchType = "vector"
  /\ Len(response.results) >= 3
  /\ UploadDateOf(response.results[1].id) > UploadDateOf(response.results[3].id)

----------------------------------------------------------------------------
(* GET /search: the query parameters are strings (sequences of characters, *)
(* the names of sortBy, sortOrder, searchType and skillsLogic are kept as   *)
(* they are); a parameter that is not given is missing from req.query.      *)

Digit == [c \in {"0", "1", "2", "3", "4", "5", "6", "7", "8", "9"} |->
            CASE c = "0" -> 0 [] c = "1" -> 1 [] c = "2" -> 2 [] c = "3" -> 3
              [] c = "4" -> 4 [] c = "5" -> 5 [] c = "6" -> 6 [] c = "7" -> 7
              [] c = "8" -> 8 [] OTHER -> 9]

\* str.trim()
RECURSIVE Trim(_)
Trim(t) ==
  IF t # <<>> /\ Head(t) = " " THEN Trim(Tail(t))
  ELSE IF t # <<>> /\ t[Len(t)] = " " THEN Trim(SubSeq(t, 1, Len(t) - 1))
  ELSE t

\* the value of the leading digits of t, acc being the value read so far
RECURSIVE ReadDigits(_, _)
ReadDigits(t, acc) ==
  IF t = <<>> \/ Head(t) \notin DOMAIN Digit THEN acc
  ELSE ReadDigits(Tail(t), acc * 10 + Digit[Head(t)])

\* parseInt(t, 10): NaN when t does not start with a digit
ParseInt(t) ==
  LET u == Trim(t)
  IN IF u = <<>> \/ Head(u) \notin DOMAIN Digit THEN NaN ELSE ReadDigits(u, 0)

\* str.split(sep)
RECURSIVE Split(_, _, _)
Split(t, sep, cur) ==
  IF t = <<>> THEN <<cur>>
  ELSE IF Head(t) = sep THEN <<cur>> \o Split(Tail(t), sep, <<>>)
  ELSE Split(Tail(t), sep, Append(cur, Head(t)))

\* the string of a sequence of characters
RECURSIVE ToStr(_)
ToStr(t) == IF t = <<>> THEN "" ELSE Head(t) \o ToStr(Tail(t))

\* req.query.<name> || dflt, for a parameter kept as characters
Param(q, name, dflt) ==
  IF name \in DOMAIN q /\ q[name] # <<>> THEN q[name] ELSE dflt

\* req.query.<name> || dflt, for a parameter kept as a name
ParamName(q, name, dflt) ==
  IF name \in DOMAIN q /\ q[name] # "" THEN q[name] ELSE dflt

Given(q, name) == name \in DOMAIN q /\ q[name] # <<>>

\* req.query.skills.split(',').map(s => s.trim())
ListParam(t) ==
  LET parts == Split(t, ",", <<>>)
  IN Arr({ToStr(Trim(parts[k])) : k \in 1..Len(parts)})

\* the experience parameter: "min-max" or a single number
ExperienceParam(t) ==
  IF "-" \in Chars(t)
    THEN LET parts == Split(t, "-", <<>>)
         IN Obj(ParseInt(parts[1]), ParseInt(parts[2]))
    ELSE Num(ParseInt(t))

\* the body the route hands to searchCVs, filters left empty when no filter
\* parameter is given
GetBody(q) ==
  LET f1 == IF Given(q, "skills")
              THEN Put(Put(NoFilters, "skills", ListParam(q["skills"])),
                       "skillsLogic",
                       IF "skillsLogic" \in DOMAIN q THEN Str(q["skillsLogic"]) ELSE Undef)
              ELSE NoFilters
      f2 == IF Given(q, "experience")
              THEN Put(f1, "experience", ExperienceParam(q["experience"])) ELSE f1
      f3 == IF Given(q, "jobTitles")
              THEN Put(f2, "jobTitles", ListParam(q["jobTitles"])) ELSE f2
  IN [query |-> Param(q, "q", <<>>),
      limit |-> ParseInt(Param(q, "limit", <<"1", "0">>)),
      page |-> ParseInt(Param(q, "page", <<"1">>)),
      filters |-> f3,
      sortBy |-> ParamName(q, "sortBy", "relevance"),
      sortOrder |-> ParamName(q, "sortOrder", "desc"),
      searchType |-> ParamName(q, "searchType", "auto")]

\* router.get('/search', ...)
GetSearch(q) ==
  /\ Handle(GetBody(q))
  /\ reqQuery' = q

\* a number written in decimal
RECURSIVE Digits(_)
Digits(n) ==
  LET last == CHOOSE c \in DOMAIN Digit : Digit[c] = n % 10
  IN IF n < 10 THEN <<last>> ELSE Append(Digits(n \div 10), last)

\* the query strings sent to GET /search: each parameter is given once ({v})
\* or not at all ({})
GetChoices ==
  [q : {{}, {<<"x">>}},
   limit : {{}, {Digits(MaxLimit)}},
   page : {{<<"1">>}},
   sortBy : {{"relevance"}, {"experience"}},
   sortOrder : {{"desc"}},
   searchType : {{"auto"}, {"text"}},
   skills : {{}, {<<"c">>}, {<<"c", ",", "r">>}, {<<"c", ",", " ", "r">>}},
   skillsLogic : {{}, {"AND"}},
   experience : {{}, {<<"0">>}, {<<"2">>}, {<<"1", "-", "2">>}, {<<"1", "-">>},
                 {<<"-", "2">>}},
   jobTitles : {{}, {<<"d">>}}]

\* req.query: the parameters that were given
QueryString(c) ==
  [k \in {x \in DOMAIN c : c[x] # {}} |-> CHOOSE v \in c[k] : TRUE]

GetRequests == {QueryString(c) : c \in GetChoices}

NextGet == \E q \in GetRequests : GetSearch(q)

SpecGet == Init /\ [][NextGet]_vars

----------------------------------------------------------------------------
(* The flattened encoding of a structured request: lists joined by commas,  *)
(* an experience range written "min-max" with the side of a bound that is   *)
(* not given left empty, numbers written in decimal.                        *)

\* the names of a list (one character each), joined by commas
RECURSIVE Joined(_)
Joined(names) ==
  IF names = {} THEN <<>>
  ELSE LET x == CHOOSE y \in names : TRUE
       IN IF names = {x} THEN <<x>> ELSE <<x, ",">> \o Joined(names \ {x})

EncodeExperience(v) ==
  IF v.t = "num" THEN Digits(v.n)
  ELSE (IF v.min = NoNum THEN <<>> ELSE Digits(v.min)) \o <<"-">>
         \o (IF v.max = NoNum THEN <<>> ELSE Digits(v.max))

Encode(b) ==
  LET f == b.filters
      has(k) == k \in DOMAIN f
  IN QueryString(
       [q |-> IF b.query = <<>> THEN {} ELSE {b.query},
        limit |-> {Digits(b.limit)},
        page |-> {Digits(b.page)},
        sortBy |-> {b.sortBy},
        sortOrder |-> {b.sortOrder},
        searchType |-> {b.searchType},
        skills |-> IF has("skills") THEN {Joined(f["skills"].a)} ELSE {},
        skillsLogic |-> IF has("skillsLogic") THEN {f["skillsLogic"].s} ELSE {},
        experience |-> IF has("experience") THEN {EncodeExperience(f["experience"])} ELSE {},
        jobTitles |-> IF has("jobTitles") THEN {Joined(f["jobTitles"].a)} ELSE {}])

\* the structured requests that have a flattened encoding
StructuredFilters ==
  {FilterObject(c) : c \in
     {d \in [skills : {Missing, Arr({"c"}), Arr({"c", "r"})},
             skillsLogic : {Missing, Str("AND")},
             experience : {Missing, Num(0), Num(MaxExp), Obj(1, MaxExp), Obj(1, NoNum),
                           Obj(NoNum, MaxExp)},
             jobTitles : {Missing, Arr({"d"})}] :
        d.skillsLogic # Missing => d.skills # Missing}}

StructuredBodies ==
  [query : {<<>>, <<"x">>}, limit : {MaxLimit}, page : {1}, filters : StructuredFilters,
   sortBy : {"relevance", "experience"}, sortOrder : {"desc"}, searchType : {"auto", "text"}]

\* searchCVs is handed the same request by both routes
SameRequest(a, b) ==
  /\ a.query = b.query /\ a.limit = b.limit /\ a.page = b.page
  /\ a.sortBy = b.sortBy /\ a.sortOrder = b.sortOrder /\ a.searchType = b.searchType
  /\ \A k \in SubFilters \cup {"skillsLogic"} : Get(a.filters, k) = Get(b.filters, k)

\* C15: GET /search hands searchCVs, for the flattened encoding of a
\* structured request (comma-separated lists, "min-max" experience ranges,
\* ranges with one bound included), the same query, limit, page, sort,
\* searchType and filters as the POST body of that request.
C15_GetTranslatesLosslessly ==
  reqQuery # NoQueryParams =>
    \A b \in StructuredBodies : Encode(b) = reqQuery => SameRequest(body, b)

----------------------------------------------------------------------------
(* The vector retrieval stage over a range of page sizes.                   *)

MaxPoolLimit == 25

PoolBodies ==
  {[NoBody EXCEPT !.query = <<"x">>, !.limit = l, !.searchType = st, !.sortBy = sb] :
     l \in 1..MaxPoolLimit, st \in {"auto", "vector"}, sb \in {"relevance", "experience"}}

NextPool ==
  \/ \E b \in PoolBodies : Plan(b)
  \/ EmbedOk

SpecPool == Init /\ [][NextPool]_vars

\* C16: the $vectorSearch stage handed to CV.aggregate considers at least as
\* many candidates (numCandidates) as the number of results it asks for
\* (limit), for every positive page size.
C16_CandidatesCoverResults ==
  pc = "aggregate" =>
    LET vectorSearch == Pipeline(body, filterConditions)[1]
    IN vectorSearch.m >= vectorSearch.n

----------------------------------------------------------------------------
(* One invocation of searchCVs followed to its response. Every awaited call *)
(* settles, by returning or by throwing: the steps after an await are taken *)
(* once they are enabled.                                                    *)

LiveBodies ==
  {[NoBody EXCEPT !.query = q, !.limit = MaxLimit, !.filters = f, !.searchType = st] :
     q \in {<<>>, <<"x">>, <<"y">>}, f \in {NoFilters, [experience |-> Num(2)]},
     st \in SearchTypes}

\* an awaited call returns or throws
Settle ==
  \/ EmbedOk
  \/ EmbedFail
  \/ \E projected \in BOOLEAN : AggregateOk(projected)
  \/ AggregateFail
  \/ VectorCountOk
  \/ VectorCountFail
  \/ \E projected \in BOOLEAN : FindOk(projected)
  \/ FindFail
  \/ TextCountOk
  \/ TextCountFail

NextLive ==
  \/ \E b \in LiveBodies : Plan(b)
  \/ Settle

SpecLive == Init /\ [][NextLive]_vars /\ WF_vars(Settle)

\* C17: whatever calls return or throw, the invocation sends exactly one
\* response: none while a call is awaited, one (400, success or 500) once the
\* handler has finished, never a second one or a change of the one sent, and
\* an invocation that started does finish.
C17_ExactlyOneResponse ==
  /\ [](/\ sent <= 1
        /\ (pc = "done" => sent = 1 /\ response.status \in {200, 400, 500})
        /\ (pc # "done" => sent = 0))
  /\ [][sent = 1 => sent' = 1 /\ response' = response]_vars
  /\ ((pc # "idle") ~> (pc = "done" /\ sent = 1))

\* the embedding call threw in auto mode, the text search answered
C17_Witness ==
  /\ pc = "done" /\ sent = 1
  /\ threw = {"embed"}
  /\ response.status = 200 /\ response.searchMethod = "text"

====
